---------------------------- MODULE Spec2Model ----------------------------
(***************************************************************************)
(* Model of src/app.py (FedPay Budget Pro): the recurrence resolver        *)
(* bill_due_dates_in_window with its date helpers, the restore of the last *)
(* saved month, the pay-window loop with its orphan diagnostic, and the    *)
(* debt snowball engine calculate_snowball.                                *)
(*                                                                         *)
(* A datetime is a record [year, month, day] (every datetime of the        *)
(* program is a midnight).  A dict is a function from its keys (strings)   *)
(* to its values, so that a missing key is a key outside the DOMAIN.       *)
(***************************************************************************)
EXTENDS Integers, Sequences, FiniteSets, TLC

VARIABLES
    \* --- restore + recurrence resolver ---
    saved,              \* the latest snapshot: [has_frequency, rows], rows of cells
    bills,              \* st.session_state.bills
    bill,               \* the bill argument of the resolver call
    window_start,       \* the window arguments of the resolver call
    window_end,
    due_dates,          \* the call's outcome: [raised, dates]
    rpc,                \* position of the restore/resolve run
    \* --- adjacent windows ---
    cuts,               \* <<a, b, c>>: the windows [a, b) and [b, c)
    parts,              \* the outcomes of the calls for [a, b) and [b, c)
    \* --- period planner ---
    pay_date_1,         \* First Pay Date
    show_3,             \* Force 3-Paycheck View
    pay_periods,        \* the list of pay dates
    win,                \* number of pay windows processed so far (the loop's i)
    displayed_indices,  \* bills shown in some column
    missing_indices,    \* the orphaned bills
    ppc,                \* position of the planner run
    \* --- snowball engine ---
    debt_data,          \* st.session_state.debt_data, or the direct argument
    debts,              \* the engine's sorted working copy
    extra_payment,
    schedule,           \* the 'Remaining Debt' of each schedule entry
    months_passed,
    month_start,        \* the balances the last simulated month started from
    round_up,           \* whether this run rounds interest up to the money unit
    spc                 \* position of the snowball run

resVars  == <<saved, bill, window_start, window_end, due_dates, rpc>>
planVars == <<pay_date_1, show_3, pay_periods, win, displayed_indices,
              missing_indices, ppc>>
snowVars == <<debt_data, debts, extra_payment, schedule, months_passed,
              month_start, round_up, spc>>
adjVars  == <<cuts, parts>>
vars     == <<resVars, bills, planVars, snowVars, adjVars>>

-----------------------------------------------------------------------------
(* Bounds of the model *)

\* longest bill list of a planner run, longest snapshot, longest debt list
MaxBills == 2
MaxRows  == 2
MaxDebts == 2
\* money is held in 1/Unit of a dollar
Unit == 100

-----------------------------------------------------------------------------
(* Generic helpers *)

Min(a, b) == IF a <= b THEN a ELSE b

Range(s) == { s[i] : i \in DOMAIN s }

\* dict.get(key, default)
Get(d, key, default) == IF key \in DOMAIN d THEN d[key] ELSE default

-----------------------------------------------------------------------------
(* Dates *)

Date(y, m, d) == [year |-> y, month |-> m, day |-> d]

\* datetime comparison: a < b and a <= b
DateLT(a, b) ==
    \/ a.year < b.year
    \/ a.year = b.year /\ a.month < b.month
    \/ a.year = b.year /\ a.month = b.month /\ a.day < b.day

DateLE(a, b) == a = b \/ DateLT(a, b)

isleap(y) == (y % 4 = 0 /\ y % 100 # 0) \/ y % 400 = 0

\* calendar.monthrange(year, month)[1]
monthrange(y, m) ==
    IF m = 2 THEN (IF isleap(y) THEN 29 ELSE 28)
    ELSE IF m \in {4, 6, 9, 11} THEN 30 ELSE 31

\* datetime(y, m, d) raises ValueError unless d is a day of that month
ValidDate(dt) ==
    /\ dt.month \in 1..12
    /\ dt.day >= 1
    /\ dt.day <= monthrange(dt.year, dt.month)

NextDay(dt) ==
    IF dt.day < monthrange(dt.year, dt.month) THEN Date(dt.year, dt.month, dt.day + 1)
    ELSE IF dt.month < 12 THEN Date(dt.year, dt.month + 1, 1)
    ELSE Date(dt.year + 1, 1, 1)

\* dt + timedelta(days=n)
RECURSIVE AddDays(_, _)
AddDays(dt, n) == IF n = 0 THEN dt ELSE AddDays(NextDay(dt), n - 1)

clamp_day_unclamped(year, month, day) == day

clamp_day(year, month, day) ==
    LET last == monthrange(year, month)
    IN  Min(day, last)

\* cur + relativedelta(months=1), cur a first of a month given as <<year, month>>
NextMonthKey(cur) == IF cur[2] = 12 THEN <<cur[1] + 1, 1>> ELSE <<cur[1], cur[2] + 1>>

KeyLE(a, b) == a[1] < b[1] \/ (a[1] = b[1] /\ a[2] <= b[2])

RECURSIVE MonthKeysFrom(_, _)
MonthKeysFrom(cur, end_month) ==
    IF KeyLE(cur, end_month)
    THEN <<cur>> \o MonthKeysFrom(NextMonthKey(cur), end_month)
    ELSE <<>>

RECURSIVE MonthKeysBefore(_, _)
MonthKeysBefore(cur, end_month) ==
    IF KeyLE(cur, end_month) /\ cur # end_month
    THEN <<cur>> \o MonthKeysBefore(NextMonthKey(cur), end_month)
    ELSE <<>>

month_keys_exclusive(ws, we) ==
    MonthKeysBefore(<<ws.year, ws.month>>, <<we.year, we.month>>)

month_keys_in_window(ws, we) ==
    MonthKeysFrom(<<ws.year, ws.month>>, <<we.year, we.month>>)

InWindowNoEnd(due, ws, we) == DateLE(ws, due)

InWindowClosed(due, ws, we) == DateLE(ws, due) /\ DateLE(due, we)

\* window_start <= due < window_end
InWindow(due, ws, we) == DateLE(ws, due) /\ DateLT(due, we)

\* sorted(dates)
RECURSIVE sorted(_)
sorted(S) ==
    IF S = {} THEN <<>>
    ELSE LET first == CHOOSE x \in S : \A y \in S : DateLE(x, y)
         IN  <<first>> \o sorted(S \ {first})

-----------------------------------------------------------------------------
(* The recurrence resolver *)

Frequencies == {"Monthly", "Every 2 Weeks", "Annual"}

\* The outcome of a call: raised (datetime() refused a day) or the sorted list.
bill_due_dates_in_window(b, ws, we) ==
    LET freq         == Get(b, "frequency", "Monthly")
        due_day      == Get(b, "due_day", 1)
        annual_month == Get(b, "annual_month", 0)
        monthly == { Date(k[1], k[2], clamp_day(k[1], k[2], due_day)) :
                        k \in Range(month_keys_in_window(ws, we)) }
        annual  == IF 1 <= annual_month /\ annual_month <= 12
                   THEN { Date(y, annual_month, clamp_day(y, annual_month, due_day)) :
                            y \in {ws.year, we.year} }
                   ELSE {}
        built == IF freq = "Monthly" THEN monthly
                 ELSE IF freq = "Annual" THEN annual
                 ELSE {}
        dates == IF freq \in {"Monthly", "Annual"}
                 THEN { due \in built : InWindow(due, ws, we) }
                 ELSE IF freq = "Every 2 Weeks" THEN {ws}
                 ELSE {}
        raised == \E due \in built : ~ValidDate(due)
    IN  [raised |-> raised, dates |-> IF raised THEN <<>> ELSE sorted(dates)]

-----------------------------------------------------------------------------
(* Restore of the last saved month *)

\* An empty cell of the frequency column as read_csv gives it, and what
\* fillna(0) leaves in such a cell (the number 0, held as text in a column of
\* texts).
NaN  == "NaN"
Zero == "0"

\* Series.fillna(value) on one cell
fillna(cell, value) == IF cell = NaN THEN value ELSE cell

\* the bill names of the snapshots, in the order of texts
Names == <<"A", "B", "C">>

\* (due_day, name) order of sort_values; names are ordered as texts
NameRank(n) == CHOOSE i \in DOMAIN Names : Names[i] = n

RowLE(a, b) ==
    \/ a["due_day"] < b["due_day"]
    \/ a["due_day"] = b["due_day"] /\ NameRank(a["name"]) <= NameRank(b["name"])

\* insertion of a row into a sorted list, after the rows it is not below
RECURSIVE InsertRow(_, _)
InsertRow(r, s) ==
    IF s = <<>> THEN <<r>>
    ELSE IF RowLE(s[1], r) THEN <<s[1]>> \o InsertRow(r, Tail(s))
    ELSE <<r>> \o s

\* df.sort_values(by=['due_day', 'name'])
RECURSIVE sort_values(_)
sort_values(rows) ==
    IF rows = <<>> THEN <<>>
    ELSE InsertRow(rows[Len(rows)], sort_values(SubSeq(rows, 1, Len(rows) - 1)))

\* One row through lines 72-82: the whole frame is filled with 0 first, then
\* the frequency column is added or filled with 'Monthly'.
RestoreRow(row, has_frequency) ==
    LET filled == [k \in DOMAIN row |->
                      IF k = "frequency" THEN fillna(row[k], Zero) ELSE row[k]]
    IN  IF has_frequency
        THEN [filled EXCEPT !["frequency"] = fillna(filled["frequency"], "Monthly")]
        ELSE [k \in DOMAIN filled \cup {"frequency"} |->
                 IF k = "frequency" THEN "Monthly" ELSE filled[k]]

\* load_last_month_data on the latest snapshot
load_last_month_data(snapshot) ==
    sort_values([i \in DOMAIN snapshot.rows |->
                    RestoreRow(snapshot.rows[i], snapshot.has_frequency)])


-----------------------------------------------------------------------------
(* Input sets *)

Years         == {2024, 2025}
WindowMonths  == {1, 2, 3, 12}
WindowDays    == {1, 15, 28}
DueDays       == {1, 15, 29, 31}
AnnualMonths  == {0, 2, 12}
RowDueDays    == {1, 15}

\* the datetimes a window can start or end at
WindowDates ==
    { dt \in [year : Years, month : WindowMonths, day : WindowDays] : ValidDate(dt) }

BillKeys == {"name", "due_day", "frequency", "annual_month"}

\* Bill records as Quick Add and get_default_bills build them, and the same
\* with the defaultable keys left out.
FullBills ==
    { [k \in BillKeys |->
         CASE k = "name"         -> "A"
           [] k = "due_day"      -> d
           [] k = "frequency"    -> f
           [] k = "annual_month" -> am] :
      d \in DueDays, f \in Frequencies, am \in AnnualMonths }

Restrict(f, K) == [k \in K |-> f[k]]

BillRecords ==
    { Restrict(b, BillKeys \ K) :
        b \in FullBills, K \in SUBSET {"frequency", "annual_month"} }

\* Rows of a saved snapshot: the frequency cell may be empty, or the whole
\* column absent (a snapshot written before the column existed).
RowsOf(n, has_frequency) ==
    { [i \in 1..n |->
         [k \in (IF has_frequency THEN BillKeys ELSE BillKeys \ {"frequency"}) |->
            CASE k = "name"         -> Names[perm[i]]
              [] k = "due_day"      -> dd[i]
              [] k = "frequency"    -> fr[i]
              [] k = "annual_month" -> 0]] :
      perm \in { p \in [1..n -> 1..n] : \A i, j \in 1..n : p[i] = p[j] => i = j },
      dd \in [1..n -> RowDueDays],
      fr \in [1..n -> {"Monthly", NaN}] }

Snapshots ==
    UNION { { [has_frequency |-> h, rows |-> r] : r \in RowsOf(n, h) } :
              n \in 1..MaxRows, h \in BOOLEAN }

NoSnapshot == [has_frequency |-> FALSE, rows |-> <<>>]
NoBill     == <<>>
NoDate     == Date(0, 0, 0)
NoOutcome  == [raised |-> FALSE, dates |-> <<>>]

PlanIdle ==
    /\ pay_date_1 = NoDate
    /\ show_3 = FALSE
    /\ pay_periods = <<>>
    /\ win = 0
    /\ displayed_indices = <<>>
    /\ missing_indices = <<>>
    /\ ppc = "idle"

SnowIdle ==
    /\ debt_data = <<>>
    /\ debts = <<>>
    /\ extra_payment = 0
    /\ schedule = <<>>
    /\ months_passed = 0
    /\ month_start = <<>>
    /\ round_up = FALSE
    /\ spc = "idle"

AdjIdle ==
    /\ cuts = <<>>
    /\ parts = <<>>

ResIdle ==
    /\ saved = NoSnapshot
    /\ bill = NoBill
    /\ window_start = NoDate
    /\ window_end = NoDate
    /\ due_dates = NoOutcome
    /\ rpc = "idle"

-----------------------------------------------------------------------------
(* Restore and resolve: the bill list is restored from the latest snapshot   *)
(* (or given), and the resolver is called on one of its bills with a window. *)

ResInit ==
    /\ \/ /\ rpc = "restore"
          /\ saved \in Snapshots
          /\ bills = <<>>
       \/ /\ rpc = "ready"
          /\ saved = NoSnapshot
          /\ bills \in { <<b>> : b \in BillRecords }
    /\ bill = NoBill
    /\ window_start = NoDate
    /\ window_end = NoDate
    /\ due_dates = NoOutcome
    /\ PlanIdle
    /\ SnowIdle
    /\ AdjIdle

\* lines 242-245: the session starts from the last saved month
LoadLastMonthData ==
    /\ rpc = "restore"
    /\ bills' = load_last_month_data(saved)
    /\ rpc' = "ready"
    /\ UNCHANGED <<saved, bill, window_start, window_end, due_dates>>
    /\ UNCHANGED <<planVars, snowVars, adjVars>>

\* line 404: one call of the resolver
Resolve ==
    /\ rpc = "ready"
    /\ \E idx \in DOMAIN bills, ws \in WindowDates, we \in WindowDates :
          /\ bill' = bills[idx]
          /\ window_start' = ws
          /\ window_end' = we
          /\ due_dates' = bill_due_dates_in_window(bills[idx], ws, we)
    /\ rpc' = "done"
    /\ UNCHANGED <<saved, bills>>
    /\ UNCHANGED <<planVars, snowVars, adjVars>>

ResNext == LoadLastMonthData \/ Resolve

SpecResolver == ResInit /\ [][ResNext]_vars

-----------------------------------------------------------------------------
(* Properties of the recurrence resolver (SpecResolver) *)

Returned == rpc = "done" /\ ~due_dates.raised

IsMonthly(b) == "frequency" \in DOMAIN b /\ b["frequency"] = "Monthly"

\* ascending with no date twice
StrictlyAscending(s) == \A i, j \in DOMAIN s : i < j => DateLT(s[i], s[j])

AllInWindow(s, ws, we) ==
    \A i \in DOMAIN s : DateLE(ws, s[i]) /\ DateLT(s[i], we)

InsideOneMonth(ws, we) ==
    /\ DateLT(ws, we)
    /\ \/ ws.year = we.year /\ ws.month = we.month
       \/ we = Date(NextMonthKey(<<ws.year, ws.month>>)[1],
                    NextMonthKey(<<ws.year, ws.month>>)[2], 1)

C6_Case ==
    /\ Returned
    /\ IsMonthly(bill)
    /\ InsideOneMonth(window_start, window_end)
    /\ bill["due_day"] >= 1
    /\ bill["due_day"] <= monthrange(window_start.year, window_start.month)

C6_DueDate == Date(window_start.year, window_start.month, bill["due_day"])

\* C6 as stated: a Monthly bill with due_day = d and a window inside one month
\* of at least d days gives exactly one date, day d of that month.
C6_ExactlyDayD_AnyWindowInMonth ==
    C6_Case => due_dates.dates = <<C6_DueDate>>

\* C6 amended: it gives day d of that month when window_start <= that day <
\* window_end, and no date otherwise.
C6_DayDWhenInWindow ==
    C6_Case =>
        due_dates.dates =
            IF DateLE(window_start, C6_DueDate) /\ DateLT(C6_DueDate, window_end)
            THEN <<C6_DueDate>>
            ELSE <<>>

\* a window that starts and ends in one month and holds day d
C6_Witness ==
    /\ C6_Case
    /\ window_start.month = window_end.month
    /\ due_dates.dates = <<C6_DueDate>>

\* the frequency of the resolved bill is missing: no such key in the record,
\* or an empty frequency cell in the snapshot it was restored from
FrequencyMissing ==
    \/ "frequency" \notin DOMAIN bill
    \/ /\ saved.has_frequency
       /\ \E i \in DOMAIN saved.rows :
             /\ saved.rows[i]["name"] = bill["name"]
             /\ saved.rows[i]["frequency"] = NaN

AsMonthly(b) ==
    [k \in DOMAIN b \cup {"frequency"} |-> IF k = "frequency" THEN "Monthly" ELSE b[k]]

\* C7: a bill whose frequency is missing is resolved exactly as the Monthly
\* bill with the same due_day, and the resolver does not raise.
C7_MissingFrequencyIsMonthly ==
    (rpc = "done" /\ FrequencyMissing) =>
        /\ ~due_dates.raised
        /\ due_dates = bill_due_dates_in_window(AsMonthly(bill), window_start, window_end)

\* C9: every date returned for a Monthly bill with due_day in 1..31 is the day
\* min(due_day, days of its month) of its own month, and due_day = 31 with the
\* window [Feb 1, Mar 1) of 2025 gives exactly Feb 28.
C9_ClampedNoRollover ==
    (rpc = "done" /\ IsMonthly(bill) /\ bill["due_day"] \in 1..31) =>
        /\ ~due_dates.raised
        /\ \A i \in DOMAIN due_dates.dates :
              LET dt == due_dates.dates[i]
              IN  dt.day = Min(bill["due_day"], monthrange(dt.year, dt.month))
        /\ (/\ bill["due_day"] = 31
            /\ window_start = Date(2025, 2, 1)
            /\ window_end = Date(2025, 3, 1))
           => due_dates.dates = <<Date(2025, 2, 28)>>

\* due_day 31 resolved in February 2025
C9_Witness ==
    /\ rpc = "done"
    /\ IsMonthly(bill)
    /\ bill["due_day"] = 31
    /\ window_start = Date(2025, 2, 1)
    /\ window_end = Date(2025, 3, 1)
    /\ due_dates.dates = <<Date(2025, 2, 28)>>

-----------------------------------------------------------------------------
(* The period planner: pay windows, displayed bills, orphaned bills.         *)
(* Bill indices are 1-based here (0-based in the code).                      *)

\* list(dict.fromkeys(s)): first occurrences, in order
RECURSIVE dedupe(_)
dedupe(s) ==
    IF s = <<>> THEN <<>>
    ELSE LET init == dedupe(SubSeq(s, 1, Len(s) - 1))
             last == s[Len(s)]
         IN  IF last \in Range(init) THEN init ELSE Append(init, last)

window_end_last_is_start(periods, i) ==
    IF i + 1 <= Len(periods) THEN periods[i + 1] ELSE periods[i]

\* lines 380-383: the window of pay date i ends at the next pay date, the last
\* one a pay cycle later
window_end_of(periods, i) ==
    IF i + 1 <= Len(periods) THEN periods[i + 1] ELSE AddDays(periods[i], 14)

\* lines 402-411: the indices appended for one window, in bill order
RECURSIVE period_bills(_, _, _, _)
period_bills(bs, n, ws, we) ==
    IF n = 0 THEN <<>>
    ELSE LET rest    == period_bills(bs, n - 1, ws, we)
             include == Len(bill_due_dates_in_window(bs[n], ws, we).dates) > 0
         IN  IF include THEN Append(rest, n) ELSE rest

\* datetime() raised in some call of the window's loop
window_raises(bs, ws, we) ==
    \E n \in DOMAIN bs : bill_due_dates_in_window(bs[n], ws, we).raised

\* line 455
RECURSIVE orphaned(_, _)
orphaned(n, displayed) ==
    IF n = 0 THEN <<>>
    ELSE IF n \in Range(displayed) THEN orphaned(n - 1, displayed)
    ELSE Append(orphaned(n - 1, displayed), n)

\* Bills of a planner run: as Quick Add builds them, and a restored bill whose
\* frequency cell was empty.
PlannerBills ==
    { [k \in BillKeys |->
         CASE k = "name"         -> "A"
           [] k = "due_day"      -> b[1]
           [] k = "frequency"    -> b[2]
           [] k = "annual_month" -> b[3]] :
      b \in { <<1, "Monthly", 0>>, <<15, "Monthly", 0>>, <<31, "Monthly", 0>>,
              <<1, "Every 2 Weeks", 0>>,
              <<1, "Annual", 0>>, <<1, "Annual", 2>>,
              <<15, "Annual", 0>>, <<15, "Annual", 2>>,
              <<15, Zero, 0>> } }

PayDates ==
    { Date(2024, 2, 2), Date(2025, 1, 1), Date(2025, 1, 3), Date(2025, 1, 17),
      Date(2025, 2, 14), Date(2025, 12, 19) }

PlanInit ==
    /\ bills \in UNION { [1..n -> PlannerBills] : n \in 1..MaxBills }
    /\ pay_date_1 \in PayDates
    /\ show_3 = FALSE
    /\ pay_periods = <<>>
    /\ win = 0
    /\ displayed_indices = <<>>
    /\ missing_indices = <<>>
    /\ ppc = "start"
    /\ ResIdle
    /\ SnowIdle
    /\ AdjIdle

\* lines 341-345 and 368-373: the pay dates; the checkbox starts at
\* is_three_pay_month and the user may set it either way
BuildPayPeriods ==
    /\ ppc = "start"
    /\ \E checked \in BOOLEAN :
          LET pay_date_2 == AddDays(pay_date_1, 14)
              pay_date_3 == AddDays(pay_date_1, 28)
          IN  /\ show_3' = checked
              /\ pay_periods' = IF checked THEN <<pay_date_1, pay_date_2, pay_date_3>>
                                ELSE <<pay_date_1, pay_date_2>>
    /\ displayed_indices' = <<>>
    /\ win' = 0
    /\ ppc' = "windows"
    /\ UNCHANGED <<bills, pay_date_1, missing_indices>>
    /\ UNCHANGED <<resVars, snowVars, adjVars>>

\* lines 375-414: one turn of the loop over the pay periods
ProcessWindow ==
    /\ ppc = "windows"
    /\ win < Len(pay_periods)
    /\ LET i  == win + 1
           ws == pay_periods[i]
           we == window_end_of(pay_periods, i)
       IN  IF window_raises(bills, ws, we)
           THEN /\ ppc' = "raised"
                /\ UNCHANGED <<win, displayed_indices>>
           ELSE /\ displayed_indices' =
                       dedupe(displayed_indices \o period_bills(bills, Len(bills), ws, we))
                /\ win' = win + 1
                /\ ppc' = "windows"
    /\ UNCHANGED <<bills, pay_date_1, show_3, pay_periods, missing_indices>>
    /\ UNCHANGED <<resVars, snowVars, adjVars>>

\* lines 455-462: the warning for orphaned bills
OrphanWarning ==
    /\ ppc = "windows"
    /\ win = Len(pay_periods)
    /\ missing_indices' = orphaned(Len(bills), displayed_indices)
    /\ ppc' = "done"
    /\ UNCHANGED <<bills, pay_date_1, show_3, pay_periods, win, displayed_indices>>
    /\ UNCHANGED <<resVars, snowVars, adjVars>>

PlanNext == BuildPayPeriods \/ ProcessWindow \/ OrphanWarning

SpecPlanner == PlanInit /\ [][PlanNext]_vars

-----------------------------------------------------------------------------
(* Properties of the period planner (SpecPlanner) *)

\* the k-th pay window, from the first pay date alone
PayWindow(k) ==
    [start |-> AddDays(pay_date_1, 14 * (k - 1)), end |-> AddDays(pay_date_1, 14 * k)]

\* the days of all the pay windows
CycleDays == { AddDays(pay_date_1, n) : n \in 0..(14 * Len(pay_periods) - 1) }

NoDateInAnyWindow(b) ==
    \A k \in 1..Len(pay_periods) :
        bill_due_dates_in_window(b, PayWindow(k).start, PayWindow(k).end).dates = <<>>

\* C8: after all 2 or 3 pay windows a bill is listed as orphaned exactly when
\* the resolver returned no date for it in every window; an 'Every 2 Weeks'
\* bill is never orphaned, and a Monthly bill whose clamped due day is no day
\* of the windows is orphaned.
C8_OrphanedIffNoDate ==
    ppc = "done" =>
        /\ Len(pay_periods) \in {2, 3}
        /\ \A idx \in DOMAIN bills :
              /\ idx \in Range(missing_indices) <=> NoDateInAnyWindow(bills[idx])
              /\ bills[idx]["frequency"] = "Every 2 Weeks"
                    => idx \notin Range(missing_indices)
              /\ (/\ bills[idx]["frequency"] = "Monthly"
                  /\ \A dt \in CycleDays :
                        dt.day # Min(bills[idx]["due_day"], monthrange(dt.year, dt.month)))
                    => idx \in Range(missing_indices)

\* two pay windows, an orphaned Monthly bill beside an 'Every 2 Weeks' bill
C8_Witness ==
    /\ ppc = "done"
    /\ Len(pay_periods) = 2
    /\ \E i, j \in DOMAIN bills :
          /\ bills[i]["frequency"] = "Monthly"
          /\ i \in Range(missing_indices)
          /\ bills[j]["frequency"] = "Every 2 Weeks"
          /\ j \notin Range(missing_indices)

-----------------------------------------------------------------------------
(* The snowball engine.                                                      *)
(*                                                                           *)
(* The code computes in binary floating point.  Here money is a whole number *)
(* of 1/Unit dollars and an APR a whole number of percent; the month's       *)
(* interest, balance * (APR / 100) / 12, is rounded to the unit, downwards   *)
(* in one run and upwards in another (round_up), which brackets the value    *)
(* the code computes.  Sums, differences, minima and comparisons are exact.  *)

Dollars(n) == n * Unit

\* a * b / c rounded to a whole number, downwards or upwards, computed
\* without a product beyond the machine integers
MulDiv(a, b, c, up) ==
    LET whole == (a \div c) * b + ((a % c) * b) \div c
        rest  == ((a % c) * b) % c
    IN  IF up /\ rest # 0 THEN whole + 1 ELSE whole

interest_not_monthly(balance, apr, up) == MulDiv(balance, apr, 100, up)

\* line 185: (d['Balance'] * (d['APR'] / 100)) / 12
interest(balance, apr, up) == MulDiv(balance, apr, 1200, up)

\* sorted(debts, key=lambda x: x['Balance']): stable
RECURSIVE InsertDebt(_, _)
InsertDebt(d, s) ==
    IF s = <<>> THEN <<d>>
    ELSE IF s[1]["Balance"] <= d["Balance"] THEN <<s[1]>> \o InsertDebt(d, Tail(s))
    ELSE <<d>> \o s

RECURSIVE sort_by_balance(_)
sort_by_balance(ds) ==
    IF ds = <<>> THEN <<>>
    ELSE InsertDebt(ds[Len(ds)], sort_by_balance(SubSeq(ds, 1, Len(ds) - 1)))

\* any(d['Balance'] > 0 for d in debts)
any_balance(ds) == \E i \in DOMAIN ds : ds[i]["Balance"] > 0

\* d['APR'] raises KeyError for a debt row that has no such key
apr_key_error(ds) ==
    \E i \in DOMAIN ds : ds[i]["Balance"] > 0 /\ "APR" \notin DOMAIN ds[i]

pay_minimum_adds(d, up) ==
    LET with_interest == d["Balance"] + interest(d["Balance"], d["APR"], up)
        payment       == Min(with_interest, d["Min Payment"])
        left          == with_interest + payment
    IN  [balance |-> left, freed |-> 0]

\* lines 185-191 for one debt with a balance: what is left of it, and the
\* minimum payment it frees when it is paid off
pay_minimum(d, up) ==
    LET with_interest == d["Balance"] + interest(d["Balance"], d["APR"], up)
        payment       == Min(with_interest, d["Min Payment"])
        left          == with_interest - payment
    IN  IF left <= 0 THEN [balance |-> 0, freed |-> d["Min Payment"]]
        ELSE [balance |-> left, freed |-> 0]

\* lines 183-191: interest and minimum payments over the first n debts;
\* gives the debts and the month's budget
RECURSIVE minimum_pass(_, _, _, _)
minimum_pass(ds, n, budget, up) ==
    IF n = 0 THEN [debts |-> ds, monthly_budget |-> budget]
    ELSE LET before == minimum_pass(ds, n - 1, budget, up)
             d      == before.debts[n]
         IN  IF d["Balance"] > 0
             THEN LET r == pay_minimum(d, up)
                  IN  [debts |-> [before.debts EXCEPT ![n]["Balance"] = r.balance],
                       monthly_budget |-> before.monthly_budget + r.freed]
             ELSE before

\* lines 193-199: the budget attacks the debts in order, from debt n on, until
\* it is used up
RECURSIVE attack_pass(_, _, _)
attack_pass(ds, n, budget) ==
    IF n > Len(ds) THEN ds
    ELSE IF ds[n]["Balance"] > 0
         THEN LET attack_payment == Min(ds[n]["Balance"], budget)
                  after == [ds EXCEPT ![n]["Balance"] = ds[n]["Balance"] - attack_payment]
              IN  IF budget - attack_payment <= 0 THEN after
                  ELSE attack_pass(after, n + 1, budget - attack_payment)
         ELSE attack_pass(ds, n + 1, budget)

\* sum(d['Balance'] for d in debts)
RECURSIVE total_balance(_)
total_balance(ds) ==
    IF ds = <<>> THEN 0 ELSE ds[1]["Balance"] + total_balance(Tail(ds))

\* lines 181-199: one simulated month
simulate_month(ds, extra, up) ==
    LET m == minimum_pass(ds, Len(ds), extra, up)
    IN  attack_pass(m.debts, 1, m.monthly_budget)

Balances(ds) == [i \in DOMAIN ds |-> ds[i]["Balance"]]

\* line 203
cap_exceeded(months) == months > 360

\* Debts a run may hold: <<balance, APR, minimum payment>>, in dollars and
\* percent.  <<0, 0, 25>> is a loan imported from the budget.
DebtChoices ==
    { <<100, 0, 10>>, <<900, 0, 10>>, <<500, 20, 25>>, <<1200, 10, 0>>, <<0, 0, 25>> }

ExtraPayments == {0, 100}

DebtNames == <<"D1", "D2", "D3", "D4">>

\* the rows of the debt editor have the key 'APR (%)'; a list handed to the
\* engine directly has the key the engine reads, 'APR'
DebtRow(c, name, apr_key) ==
    [k \in {"Debt Name", "Balance", apr_key, "Min Payment"} |->
        CASE k = "Debt Name"   -> name
          [] k = "Balance"     -> Dollars(c[1])
          [] k = apr_key       -> c[2]
          [] k = "Min Payment" -> Dollars(c[3])]

DebtLists(apr_key) ==
    UNION { { [i \in 1..n |-> DebtRow(cs[i], DebtNames[i], apr_key)] :
                cs \in [1..n -> DebtChoices] } : n \in 1..MaxDebts }

\* [row for row in st.session_state.debt_data if row['Balance'] > 0]
RECURSIVE with_balance(_)
with_balance(rows) ==
    IF rows = <<>> THEN <<>>
    ELSE IF rows[1]["Balance"] > 0 THEN <<rows[1]>> \o with_balance(Tail(rows))
    ELSE with_balance(Tail(rows))

SnowInit ==
    /\ \/ spc = "ui"   /\ debt_data \in DebtLists("APR (%)")
       \/ spc = "call" /\ debt_data \in DebtLists("APR")
    /\ extra_payment \in { Dollars(e) : e \in ExtraPayments }
    /\ round_up \in BOOLEAN
    /\ debts = <<>>
    /\ schedule = <<>>
    /\ months_passed = 0
    /\ month_start = <<>>
    /\ bills = <<>>
    /\ ResIdle
    /\ PlanIdle
    /\ AdjIdle

\* lines 169-175: the engine starts on a sorted copy
Start(debts_data) ==
    /\ debts' = sort_by_balance(debts_data)
    /\ schedule' = <<>>
    /\ months_passed' = 0
    /\ month_start' = Balances(sort_by_balance(debts_data))
    /\ spc' = "loop"

\* lines 275-280: 'Calculate Freedom Date' of the snowball page
CalculateFreedomDate ==
    /\ spc = "ui"
    /\ LET calc_data == with_balance(debt_data)
       IN  IF calc_data = <<>>
           THEN /\ spc' = "warned"
                /\ UNCHANGED <<debts, schedule, months_passed, month_start>>
           ELSE Start(calc_data)
    /\ UNCHANGED <<debt_data, extra_payment, round_up, bills>>
    /\ UNCHANGED <<resVars, planVars, adjVars>>

\* calculate_snowball(debts_data, extra_payment) called with a debt list
CallSnowball ==
    /\ spc = "call"
    /\ Start(debt_data)
    /\ UNCHANGED <<debt_data, extra_payment, round_up, bills>>
    /\ UNCHANGED <<resVars, planVars, adjVars>>

\* lines 177-204: one turn of the while loop
SimulateMonth ==
    /\ spc = "loop"
    /\ any_balance(debts)
    /\ IF apr_key_error(debts)
       THEN /\ spc' = "raised"
            /\ months_passed' = months_passed + 1
            /\ UNCHANGED <<debts, schedule, month_start>>
       ELSE LET after == simulate_month(debts, extra_payment, round_up)
            IN  /\ debts' = after
                /\ month_start' = Balances(debts)
                /\ months_passed' = months_passed + 1
                /\ schedule' = Append(schedule, total_balance(after))
                /\ spc' = IF cap_exceeded(months_passed + 1) THEN "done" ELSE "loop"
    /\ UNCHANGED <<debt_data, extra_payment, round_up, bills>>
    /\ UNCHANGED <<resVars, planVars, adjVars>>

\* lines 177 and 206: no balance is left, the engine returns
ReturnSchedule ==
    /\ spc = "loop"
    /\ ~any_balance(debts)
    /\ spc' = "done"
    /\ UNCHANGED <<debt_data, debts, extra_payment, schedule, months_passed,
                   month_start, round_up, bills>>
    /\ UNCHANGED <<resVars, planVars, adjVars>>

SnowNext == CalculateFreedomDate \/ CallSnowball \/ SimulateMonth \/ ReturnSchedule

SpecSnowball == SnowInit /\ [][SnowNext]_vars

-----------------------------------------------------------------------------
(* Properties of the snowball engine (SpecSnowball) *)

\* the debt list carries the keys of the debt editor's rows
FromEditor == \A i \in DOMAIN debt_data : "APR (%)" \in DOMAIN debt_data[i]

\* the debt list carries the key the engine reads
Direct == \A i \in DOMAIN debt_data : "APR" \in DOMAIN debt_data[i]

\* C1: for the rows the snowball page passes (those of debt_data with a
\* balance, keys 'Debt Name', 'Balance', 'APR (%)', 'Min Payment') and every
\* extra payment, calculate_snowball returns and does not raise.
C1_SnowballNeverRaises ==
    FromEditor => spc # "raised"

Terms(row) == <<row["Balance"], row["APR"], row["Min Payment"]>>

\* the run of C2: balances 100 and 900, APR 0, minimum payment 10 each, no
\* extra payment
C2_Case ==
    /\ spc \in {"loop", "done"}
    /\ Direct
    /\ Len(debt_data) = 2
    /\ { Terms(debt_data[i]) : i \in DOMAIN debt_data } =
          { <<Dollars(100), 0, Dollars(10)>>, <<Dollars(900), 0, Dollars(10)>> }
    /\ extra_payment = 0

\* the place in debts of the debt that came in with this balance
PlaceOf(balance) ==
    CHOOSE i \in DOMAIN debts :
        \E j \in DOMAIN debt_data :
            /\ debt_data[j]["Balance"] = balance
            /\ debt_data[j]["Debt Name"] = debts[i]["Debt Name"]

\* C2: the 100 debt reaches zero in an earlier month than the 900 debt, and in
\* every month after the one in which it reached zero the 900 debt is reduced
\* by 20 (its own minimum payment and the freed one), until it is paid off.
C2_FreedMinimumStaysInPool ==
    (C2_Case /\ months_passed >= 1) =>
        LET small == PlaceOf(Dollars(100))
            big   == PlaceOf(Dollars(900))
        IN  /\ (debts[big]["Balance"] = 0 /\ month_start[big] > 0)
                  => month_start[small] = 0
            /\ (month_start[small] = 0 /\ month_start[big] > 0)
                  => month_start[big] - debts[big]["Balance"]
                        = Min(month_start[big], Dollars(20))

\* C3: the returned schedule never has more than 360 entries, and its length
\* is the number of simulated months.
C3_AtMost360Entries ==
    spc = "done" =>
        /\ Len(schedule) <= 360
        /\ Len(schedule) = months_passed

NonIncreasing(s) == \A i \in 1..(Len(s) - 1) : s[i + 1] <= s[i]

AllAprZero == \A i \in DOMAIN debt_data : Get(debt_data[i], "APR", 1) = 0

C10_Case ==
    /\ Direct
    /\ Len(debt_data) = 1
    /\ Terms(debt_data[1]) = <<Dollars(500), 20, Dollars(25)>>
    /\ extra_payment = Dollars(100)

\* C10: that run returns a schedule of at most 5 entries whose last entry has
\* Remaining Debt 0.
C10_PaidOffWithinFiveMonths ==
    C10_Case =>
        /\ Len(schedule) <= 5
        /\ spc = "done" => (schedule # <<>> /\ schedule[Len(schedule)] = 0)

\* the run has returned, paid off in its fifth month
C10_Witness ==
    /\ C10_Case
    /\ spc = "done"
    /\ Len(schedule) = 5
    /\ schedule[5] = 0
    /\ schedule[4] > 0

-----------------------------------------------------------------------------
(* Adjacent windows: one bill is resolved for [a, b), then for [b, c), as    *)
(* the pay-window loop does for consecutive pay dates, and for [a, c).       *)

\* a < b < c
Cuts ==
    { t \in WindowDates \X WindowDates \X WindowDates :
        DateLT(t[1], t[2]) /\ DateLT(t[2], t[3]) }

AdjInit ==
    /\ bills \in { <<b>> : b \in BillRecords }
    /\ cuts \in Cuts
    /\ parts = <<>>
    /\ saved = NoSnapshot
    /\ bill = NoBill
    /\ window_start = NoDate
    /\ window_end = NoDate
    /\ due_dates = NoOutcome
    /\ rpc = "adjacent"
    /\ PlanIdle
    /\ SnowIdle

\* lines 379-383 and 404: the call for the next of the two adjacent windows;
\* the window ends where the following one starts
ResolvePart ==
    /\ rpc = "adjacent"
    /\ Len(parts) < 2
    /\ LET i == Len(parts) + 1
       IN  parts' = Append(parts, bill_due_dates_in_window(bills[1], cuts[i], cuts[i + 1]))
    /\ UNCHANGED <<cuts, bills, resVars>>
    /\ UNCHANGED <<planVars, snowVars>>

\* line 404: the call for the window [a, c) that the two make up
ResolveSpan ==
    /\ rpc = "adjacent"
    /\ Len(parts) = 2
    /\ bill' = bills[1]
    /\ window_start' = cuts[1]
    /\ window_end' = cuts[3]
    /\ due_dates' = bill_due_dates_in_window(bills[1], cuts[1], cuts[3])
    /\ rpc' = "done"
    /\ UNCHANGED <<cuts, parts, bills, saved>>
    /\ UNCHANGED <<planVars, snowVars>>

AdjNext == ResolvePart \/ ResolveSpan

SpecAdjacent == AdjInit /\ [][AdjNext]_vars

-----------------------------------------------------------------------------
(* Properties of adjacent windows (SpecAdjacent) *)

\* C11: for a Monthly bill and adjacent windows [a, b) and [b, c), a < b < c,
\* the dates returned for [a, b) and for [b, c) are disjoint and together are
\* exactly the dates returned for [a, c): no due date is counted in both
\* windows and none is skipped.
C11_AdjacentWindowsPartition ==
    (rpc = "done" /\ Len(parts) = 2 /\ IsMonthly(bill)) =>
        /\ ~parts[1].raised /\ ~parts[2].raised /\ ~due_dates.raised
        /\ Range(parts[1].dates) \cap Range(parts[2].dates) = {}
        /\ Range(parts[1].dates) \cup Range(parts[2].dates) = Range(due_dates.dates)
        /\ Len(parts[1].dates) + Len(parts[2].dates) = Len(due_dates.dates)

\* a bill due on the day b itself, [a, b) reaching over a year's end, and a
\* due date in each of the two windows
C11_Witness ==
    /\ rpc = "done"
    /\ Len(parts) = 2
    /\ IsMonthly(bill)
    /\ cuts[1].year < cuts[2].year
    /\ cuts[2].day = bill["due_day"]
    /\ parts[1].dates # <<>>
    /\ cuts[2] \in Range(parts[2].dates)

-----------------------------------------------------------------------------
(* The four runs together *)

Init == ResInit \/ PlanInit \/ SnowInit \/ AdjInit

Next == ResNext \/ PlanNext \/ SnowNext \/ AdjNext

Spec == Init /\ [][Next]_vars

=============================================================================
